---- MODULE Spec2Model ----
(***************************************************************************)
(* Model of .github/actions/js-dependency-update/index.js: one invocation  *)
(* of run(), statement by statement.  Strings that the code inspects       *)
(* character by character (the action inputs) are sequences of one-        *)
(* character strings; texts the code only passes on are sequences of       *)
(* parts, each part a literal or an interpolated value tagged with the     *)
(* place it came from.                                                     *)
(***************************************************************************)
EXTENDS Integers, Sequences, FiniteSets, TLC

(* ------------------------------ bounds -------------------------------- *)

\* Subprocess exit codes range over 0..MaxExit.
MaxExit == 1

\* `git status -s` prints between 0 and MaxStatusLines lines.
MaxStatusLines == 1

(* --------------------------- character data --------------------------- *)

Lower ==
  {"a","b","c","d","e","f","g","h","i","j","k","l","m",
   "n","o","p","q","r","s","t","u","v","w","x","y","z"}

Upper ==
  {"A","B","C","D","E","F","G","H","I","J","K","L","M",
   "N","O","P","Q","R","S","T","U","V","W","X","Y","Z"}

Digits ==
  {"0","1","2","3","4","5","6","7","8","9"}

\* The characters String.prototype.trim removes (those the inputs use).
Whitespace ==
  {" ", "\t", "\n"}

\* Character class of /^[a-zA-Z0-9_\-\.\/]+$/
BranchChars ==
  Lower \cup Upper \cup Digits \cup {"_", "-", ".", "/"}

\* Character class of /^[a-zA-Z0-9_\-\/]+$/
DirChars ==
  Lower \cup Upper \cup Digits \cup {"_", "-", "/"}

(* ------------------------- the action's inputs ------------------------ *)

\* Values the workflow may hand over for base-branch and head-branch
\* (<<>> is "not supplied").
BranchInputs ==
  { <<>>,
    <<"m">>,
    <<"r", "/", "v", ".", "1">>,
    <<" ", "m">>,
    <<" ">>,
    <<"m", ";", "x">>,
    <<"m", " ", "x">> }

\* Values the workflow may hand over for working-directory.
DirInputs ==
  { <<>>,
    <<"s", "/", "a">>,
    <<"s", ".", "a">>,
    <<"s", " ">>,
    <<"s", " ", "&">> }

\* Values the workflow may hand over for gh-token.
TokenInputs ==
  { <<>>, <<" ">>, <<"t", "1">>, <<"t", "2">> }

\* Values the workflow may hand over for debug.
DebugInputs ==
  { <<"t", "r", "u", "e">>, <<"f", "a", "l", "s", "e">>, <<"y", "e", "s">> }

\* Texts `git status -s package*.json` may print, one element per line.
StatusLineKinds ==
  {"M", "??"}

RECURSIVE SeqsUpTo(_, _)
SeqsUpTo(S, n) ==
  IF n = 0 THEN {<<>>}
  ELSE LET shorter == SeqsUpTo(S, n - 1)
       IN  shorter \cup {Append(q, x) : q \in shorter, x \in S}

StatusOutputs ==
  SeqsUpTo(StatusLineKinds, MaxStatusLines)

\* Error messages the hosting API may answer a pulls.create call with.
ApiErrors ==
  {"Bad credentials", "Resource not accessible by integration"}

(* ------------------------------ text parts ---------------------------- *)

Lit(s) ==
  [from |-> "literal", text |-> s, val |-> <<>>]

In(name, v) ==
  [from |-> name, text |-> "", val |-> v]

Api(s) ==
  [from |-> "api", text |-> s, val |-> <<>>]

(* ------------------------------- state -------------------------------- *)

VARIABLES
  inputs,      \* the INPUT_* environment of the invocation
  pc,          \* position of run()
  basebranch,  \* locals of run()
  headBranch,
  ghToken,
  workingDir,
  debug,
  logger,      \* the closure setupLogger returned: its debug flag and prefix
  core,        \* what @actions/core holds: output lines, exit code, failures, secrets
  calls,       \* the logger methods called so far, with their messages
  validated,   \* the fields a validator has been applied to, in order
  cmds,        \* the subprocesses started so far
  gitStatus,   \* result of the status query
  octokit,     \* the API client
  apiCalls,    \* the pulls.create calls made so far
  caught,      \* the error caught by the catch block
  thrown       \* the error run()'s promise was rejected with

vars ==
  <<inputs, pc, basebranch, headBranch, ghToken, workingDir, debug, logger,
    core, calls, validated, cmds, gitStatus, octokit, apiCalls, caught, thrown>>

NoError ==
  [kind |-> "none", at |-> "", code |-> 0]

NoStatus ==
  [done |-> FALSE, stdout |-> <<>>]

NoClient ==
  [made |-> FALSE, auth |-> <<>>]

NoCaught ==
  [set |-> FALSE, message |-> ""]

Init ==
  /\ inputs \in [base : BranchInputs, head : BranchInputs, token : TokenInputs,
                 dir : DirInputs, debug : DebugInputs]
  /\ pc = "L46"
  /\ basebranch = <<>>
  /\ headBranch = <<>>
  /\ ghToken = <<>>
  /\ workingDir = <<>>
  /\ debug = FALSE
  /\ logger = [debug |-> FALSE, prefix |-> ""]
  /\ core = [out |-> <<>>, exitCode |-> 0, failed |-> <<>>, secrets |-> {}]
  /\ calls = <<>>
  /\ validated = <<>>
  /\ cmds = <<>>
  /\ gitStatus = NoStatus
  /\ octokit = NoClient
  /\ apiCalls = <<>>
  /\ caught = NoCaught
  /\ thrown = NoError


(* ------------------------- library behaviour -------------------------- *)

\* String.prototype.trim, which core.getInput applies to the value it returns.
RECURSIVE TrimLeft(_)
TrimLeft(str) ==
  IF str # <<>> /\ Head(str) \in Whitespace THEN TrimLeft(Tail(str)) ELSE str

RECURSIVE TrimRight(_)
TrimRight(str) ==
  IF str # <<>> /\ str[Len(str)] \in Whitespace
  THEN TrimRight(SubSeq(str, 1, Len(str) - 1))
  ELSE str

Trim(str) ==
  TrimRight(TrimLeft(str))

\* Variant: the inputs are read without {required: true}.
InputMissing_never(val) ==
  FALSE

\* core.getInput(name, {required: true}) throws when the value is empty.
InputMissing(val) ==
  val = <<>>

\* The values core.getBooleanInput accepts.
TrueValues ==
  { <<"t", "r", "u", "e">>, <<"T", "r", "u", "e">>, <<"T", "R", "U", "E">> }

FalseValues ==
  { <<"f", "a", "l", "s", "e">>, <<"F", "a", "l", "s", "e">>, <<"F", "A", "L", "S", "E">> }

\* core.info, core.error, core.setFailed, core.setSecret on the state of @actions/core.
CoreInfo(c, text) ==
  [c EXCEPT !.out = Append(@, [chan |-> "info", text |-> text])]

CoreError(c, text) ==
  [c EXCEPT !.out = Append(@, [chan |-> "error", text |-> text])]

CoreSetFailed(c, text) ==
  [c EXCEPT !.exitCode = 1,
            !.failed = Append(@, text),
            !.out = Append(c.out, [chan |-> "error", text |-> text])]

CoreSetSecret(c, secret) ==
  [c EXCEPT !.secrets = @ \cup {secret}]

(* --------------------------- index.js helpers ------------------------- *)

\* /^[a-zA-Z0-9_\-\.\/]+$/.test(branchName)
validateBranchName(branchName) ==
  /\ Len(branchName) > 0
  /\ \A i \in 1..Len(branchName) : branchName[i] \in BranchChars

\* Variant: the directory check reuses the branch character class.
validateDirectoryName_asBranch(dirName) ==
  /\ Len(dirName) > 0
  /\ \A i \in 1..Len(dirName) : dirName[i] \in BranchChars

\* /^[a-zA-Z0-9_\-\/]+$/.test(dirName)
validateDirectoryName(dirName) ==
  /\ Len(dirName) > 0
  /\ \A i \in 1..Len(dirName) : dirName[i] \in DirChars

\* `${prefix}${prefix ? " : " : ""}${message}`
Prefixed(lg, message) ==
  IF lg.prefix # "" THEN <<Lit(lg.prefix), Lit(" : ")>> \o message ELSE message

\* Variant: logger.debug does not test the flag.
LoggerDebug_always(lg, c, message) ==
  CoreInfo(c, <<Lit("DEBUG ")>> \o Prefixed(lg, message))

\* logger.debug, logger.info, logger.error of the object setupLogger returns.
LoggerDebug(lg, c, message) ==
  IF lg.debug THEN CoreInfo(c, <<Lit("DEBUG ")>> \o Prefixed(lg, message)) ELSE c

LoggerInfo(lg, c, message) ==
  CoreInfo(c, Prefixed(lg, message))

LoggerError(lg, c, message) ==
  CoreError(c, Prefixed(lg, message))

LoggerCall(level, lg, c, message) ==
  CASE level = "debug" -> LoggerDebug(lg, c, message)
    [] level = "info"  -> LoggerInfo(lg, c, message)
    [] level = "error" -> LoggerError(lg, c, message)

setupLogger(dbg, prefix) ==
  [debug |-> dbg, prefix |-> prefix]

(* ------------------------------ statements ---------------------------- *)

locals ==
  <<basebranch, headBranch, ghToken, workingDir, debug, logger>>

effects ==
  <<core, calls, validated, cmds, gitStatus, octokit, apiCalls, caught>>

\* An exception leaves run(): its promise is rejected.
Throw(kind, at, code) ==
  /\ pc' = "rejected"
  /\ thrown' = [kind |-> kind, at |-> at, code |-> code]

\* A logger call at statement `at`, followed by statement `next`.
LogStmt(at, level, message, next) ==
  /\ pc = at
  /\ core' = LoggerCall(level, logger, core, message)
  /\ calls' = Append(calls, [level |-> level, message |-> message])
  /\ pc' = next
  /\ UNCHANGED <<inputs, locals, validated, cmds, gitStatus, octokit, apiCalls,
                 caught, thrown>>

\* Variant: the exec call is made with ignoreReturnCode, so a non-zero exit is
\* noted but the sequence goes on.
ExecStmt_ignore(at, argv, cwd, next) ==
  /\ pc = at
  /\ cmds' = Append(cmds, [argv |-> argv, cwd |-> cwd])
  /\ \E code \in 0..MaxExit :
       /\ pc' = next
       /\ thrown' = IF code = 0 THEN thrown
                    ELSE [kind |-> "ExecError", at |-> at, code |-> code]
  /\ UNCHANGED <<inputs, basebranch, headBranch, ghToken, workingDir, debug, logger,
                 core, calls, validated, gitStatus, octokit, apiCalls, caught>>

\* exec.exec / exec.getExecOutput at statement `at`: the promise is rejected
\* when the process exits non-zero.
ExecStmt(at, argv, cwd, next) ==
  /\ pc = at
  /\ cmds' = Append(cmds, [argv |-> argv, cwd |-> cwd])
  /\ \E code \in 0..MaxExit :
       IF code = 0
       THEN pc' = next /\ thrown' = thrown
       ELSE Throw("ExecError", at, code)
  /\ UNCHANGED <<inputs, locals, core, calls, validated, gitStatus, octokit,
                 apiCalls, caught>>

GetBaseBranch ==
  /\ pc = "L46"
  /\ IF InputMissing(inputs.base)
     THEN Throw("MissingInput", "base-branch", 0) /\ basebranch' = basebranch
     ELSE basebranch' = Trim(inputs.base) /\ pc' = "L47" /\ thrown' = thrown
  /\ UNCHANGED <<inputs, headBranch, ghToken, workingDir, debug, logger, effects>>

GetHeadBranch ==
  /\ pc = "L47"
  /\ IF InputMissing(inputs.head)
     THEN Throw("MissingInput", "head-branch", 0) /\ headBranch' = headBranch
     ELSE headBranch' = Trim(inputs.head) /\ pc' = "L48" /\ thrown' = thrown
  /\ UNCHANGED <<inputs, basebranch, ghToken, workingDir, debug, logger, effects>>

GetToken ==
  /\ pc = "L48"
  /\ IF InputMissing(inputs.token)
     THEN Throw("MissingInput", "gh-token", 0) /\ ghToken' = ghToken
     ELSE ghToken' = Trim(inputs.token) /\ pc' = "L49" /\ thrown' = thrown
  /\ UNCHANGED <<inputs, basebranch, headBranch, workingDir, debug, logger, effects>>

GetWorkingDir ==
  /\ pc = "L49"
  /\ IF InputMissing(inputs.dir)
     THEN Throw("MissingInput", "working-directory", 0) /\ workingDir' = workingDir
     ELSE workingDir' = Trim(inputs.dir) /\ pc' = "L50" /\ thrown' = thrown
  /\ UNCHANGED <<inputs, basebranch, headBranch, ghToken, debug, logger, effects>>

GetDebug ==
  /\ pc = "L50"
  /\ LET val == Trim(inputs.debug)
     IN  IF val \in TrueValues
         THEN debug' = TRUE /\ pc' = "L51" /\ thrown' = thrown
         ELSE IF val \in FalseValues
         THEN debug' = FALSE /\ pc' = "L51" /\ thrown' = thrown
         ELSE Throw("TypeError", "debug", 0) /\ debug' = debug
  /\ UNCHANGED <<inputs, basebranch, headBranch, ghToken, workingDir, logger, effects>>

MakeLogger ==
  /\ pc = "L51"
  /\ logger' = setupLogger(debug, "[js-dependency-update]")
  /\ pc' = "L57"
  /\ UNCHANGED <<inputs, basebranch, headBranch, ghToken, workingDir, debug,
                 effects, thrown>>

SetSecret ==
  /\ pc = "L57"
  /\ core' = CoreSetSecret(core, ghToken)
  /\ pc' = "L59"
  /\ UNCHANGED <<inputs, locals, calls, validated, cmds, gitStatus, octokit,
                 apiCalls, caught, thrown>>

LogValidating ==
  LogStmt("L59", "debug",
          <<Lit("Validating inputs base-branch, head-branch, working-directory")>>,
          "L61")

InvalidBaseMsg ==
  <<Lit("Invalid base branch name. Brnch names should include only characters, numbers, hyphens, underscores, dots and forward slashes")>>

InvalidHeadMsg ==
  <<Lit("Invalid head branch name. Brnch names should include only characters, numbers, hyphens, underscores, dots and forward slashes")>>

InvalidDirMsg ==
  <<Lit("Invalid directory name. Directory names should include only characters, numbers, hyphens, underscores and forward slashes")>>

\* Variant: the `return` after core.setFailed is missing.
ValidateStmt_noreturn(at, field, valid, message, next) ==
  /\ pc = at
  /\ validated' = Append(validated, field)
  /\ pc' = next
  /\ core' = IF valid THEN core ELSE CoreSetFailed(core, message)
  /\ UNCHANGED <<inputs, basebranch, headBranch, ghToken, workingDir, debug, logger,
                 calls, cmds, gitStatus, octokit, apiCalls, caught, thrown>>

\* if (!valid) { core.setFailed(message); return; }
ValidateStmt(at, field, valid, message, next) ==
  /\ pc = at
  /\ validated' = Append(validated, field)
  /\ IF valid
     THEN pc' = next /\ core' = core
     ELSE pc' = "returned" /\ core' = CoreSetFailed(core, message)
  /\ UNCHANGED <<inputs, locals, calls, cmds, gitStatus, octokit, apiCalls,
                 caught, thrown>>

ValidateBase ==
  ValidateStmt("L61", "base-branch", validateBranchName(basebranch),
               InvalidBaseMsg, "L68")

ValidateHead ==
  ValidateStmt("L68", "head-branch", validateBranchName(headBranch),
               InvalidHeadMsg, "L74")

ValidateDir ==
  ValidateStmt("L74", "working-directory", validateDirectoryName(workingDir),
               InvalidDirMsg, "L81")


LogBaseBranch ==
  LogStmt("L81", "debug",
          <<Lit("Base branch is "), In("base-branch", basebranch)>>, "L82")

LogHeadBranch ==
  LogStmt("L82", "debug",
          <<Lit("Head branch is "), In("head-branch", headBranch)>>, "L83")

LogWorkingDir ==
  LogStmt("L83", "debug",
          <<Lit("Working directory is "), In("working-directory", workingDir)>>, "L85")

LogChecking ==
  LogStmt("L85", "debug", <<Lit("Checking for package update")>>, "L87")

NpmUpdateCmd ==
  <<Lit("npm"), Lit("update")>>

GitStatusCmd ==
  <<Lit("git"), Lit("status"), Lit("-s"), Lit("package*.json")>>

GitConfigNameCmd ==
  <<Lit("git"), Lit("config"), Lit("--global"), Lit("user.name"), Lit("gh-automation")>>

GitConfigEmailCmd ==
  <<Lit("git"), Lit("config"), Lit("--global"), Lit("user.email"),
    Lit("gh-automation@email.com")>>

GitCheckoutCmd(branch) ==
  <<Lit("git"), Lit("checkout"), Lit("-b"), In("head-branch", branch)>>

\* Variant: everything in the working tree is staged.
GitAddCmd_all ==
  <<Lit("git"), Lit("add"), Lit(".")>>

GitAddCmd ==
  <<Lit("git"), Lit("add"), Lit("package.json"), Lit("package-lock.json")>>

GitCommitCmd ==
  <<Lit("git"), Lit("commit"), Lit("-m"), Lit("chore update dependencies")>>

GitPushCmd(branch) ==
  <<Lit("git"), Lit("push"), Lit("-u"), Lit("origin"), In("head-branch", branch),
    Lit("--force")>>

\* No options are passed to the two exec calls of setupGit.
DefaultCwd ==
  <<>>

NpmUpdate ==
  ExecStmt("L87", NpmUpdateCmd, workingDir, "L91")

\* exec.getExecOutput: on exit 0 the result carries the captured stdout.
GitStatus ==
  /\ pc = "L91"
  /\ cmds' = Append(cmds, [argv |-> GitStatusCmd, cwd |-> workingDir])
  /\ \E code \in 0..MaxExit :
       IF code = 0
       THEN /\ \E text \in StatusOutputs :
                 gitStatus' = [done |-> TRUE, stdout |-> text]
            /\ pc' = "L99"
            /\ thrown' = thrown
       ELSE Throw("ExecError", "L91", code) /\ gitStatus' = gitStatus
  /\ UNCHANGED <<inputs, locals, core, calls, validated, octokit, apiCalls, caught>>

\* Variant: the comparison is >= 0.
UpdatesAvailable_always(stdout) ==
  Len(stdout) >= 0

\* gitStatus.stdout.length > 0: every status line printed is a non-empty text.
UpdatesAvailable(stdout) ==
  Len(stdout) > 0

CheckStatus ==
  /\ pc = "L99"
  /\ pc' = IF UpdatesAvailable(gitStatus.stdout) THEN "L100" ELSE "L141"
  /\ UNCHANGED <<inputs, locals, effects, thrown>>

LogUpdates ==
  LogStmt("L100", "debug", <<Lit("There are updates available!")>>, "L101")

LogSettingUp ==
  LogStmt("L101", "debug", <<Lit("Setting up git")>>, "L6")

SetupGitName ==
  ExecStmt("L6", GitConfigNameCmd, DefaultCwd, "L7")

SetupGitEmail ==
  ExecStmt("L7", GitConfigEmailCmd, DefaultCwd, "L104")

LogCommitting ==
  LogStmt("L104", "debug", <<Lit("Commiting and pushing package*.json changes")>>,
          "L105")

GitCheckout ==
  ExecStmt("L105", GitCheckoutCmd(headBranch), workingDir, "L108")

GitAdd ==
  ExecStmt("L108", GitAddCmd, workingDir, "L111")

GitCommit ==
  ExecStmt("L111", GitCommitCmd, workingDir, "L114")

GitPush ==
  ExecStmt("L114", GitPushCmd(headBranch), workingDir, "L118")

\* Variant: the debug message interpolates the token.
LogFetching_leak ==
  LogStmt("L118", "debug",
          <<Lit("Fetching octokit API with "), In("gh-token", ghToken)>>, "L119")

LogFetching ==
  LogStmt("L118", "debug", <<Lit("Fetching octokit API")>>, "L119")

\* github.getOctokit(token) throws when the token is the empty string.
GetOctokit ==
  /\ pc = "L119"
  /\ IF ghToken = <<>>
     THEN Throw("Error", "getOctokit", 0) /\ octokit' = octokit
     ELSE octokit' = [made |-> TRUE, auth |-> ghToken] /\ pc' = "L122"
          /\ thrown' = thrown
  /\ UNCHANGED <<inputs, locals, core, calls, validated, cmds, gitStatus,
                 apiCalls, caught>>

LogCreating ==
  LogStmt("L122", "debug",
          <<Lit("Creating PR branch using head branch "), In("head-branch", headBranch)>>,
          "L123")

PullRequest(client, base, head) ==
  [auth |-> client.auth,
   owner |-> "context.repo.owner",
   repo |-> "context.repo.repo",
   title |-> "Update NPM dependencies",
   body |-> "This pull request updates NPM packages",
   base |-> base,
   head |-> head]

\* await octokit.rest.pulls.create(...) inside try: a rejection enters the catch block.
CreatePull ==
  /\ pc = "L123"
  /\ apiCalls' = Append(apiCalls, PullRequest(octokit, basebranch, headBranch))
  /\ \/ pc' = "L143" /\ caught' = caught
     \/ \E e \in ApiErrors :
          /\ caught' = [set |-> TRUE, message |-> e]
          /\ pc' = "L134"
  /\ UNCHANGED <<inputs, locals, core, calls, validated, cmds, gitStatus, octokit,
                 thrown>>

LogWentWrong ==
  LogStmt("L134", "error",
          <<Lit("Something went wrong while creating the PR. Check logs below")>>,
          "L137")

\* Variant: the catch block only logs.
SetFailedPull_swallow ==
  /\ pc = "L137"
  /\ pc' = "L138"
  /\ UNCHANGED <<inputs, basebranch, headBranch, ghToken, workingDir, debug, logger,
                 core, calls, validated, cmds, gitStatus, octokit, apiCalls, caught,
                 thrown>>

\* core.setFailed(e.message)
SetFailedPull ==
  /\ pc = "L137"
  /\ core' = CoreSetFailed(core, <<Api(caught.message)>>)
  /\ pc' = "L138"
  /\ UNCHANGED <<inputs, locals, calls, validated, cmds, gitStatus, octokit,
                 apiCalls, caught, thrown>>

\* logger.error(e): the template renders e as "<name>: <message>".
LogCaught ==
  LogStmt("L138", "error", <<Lit("HttpError: "), Api(caught.message)>>, "L143")

LogNoUpdates ==
  LogStmt("L141", "info", <<Lit("No updates at this point in time!")>>, "L143")

FinalInfo ==
  /\ pc = "L143"
  /\ core' = CoreInfo(core, <<Lit("I am a custom JS action")>>)
  /\ pc' = "returned"
  /\ UNCHANGED <<inputs, locals, calls, validated, cmds, gitStatus, octokit,
                 apiCalls, caught, thrown>>

\* run() returned: the process ends with the exit code core holds.
ProcessExit ==
  /\ pc = "returned"
  /\ pc' = "exited"
  /\ UNCHANGED <<inputs, locals, effects, thrown>>

\* run(); has no rejection handler: the rejection ends the process with exit
\* code 1, and core.setFailed is never called for it.
UnhandledRejection ==
  /\ pc = "rejected"
  /\ core' = [core EXCEPT !.exitCode = 1]
  /\ pc' = "exited"
  /\ UNCHANGED <<inputs, locals, calls, validated, cmds, gitStatus, octokit,
                 apiCalls, caught, thrown>>

Next ==
  \/ GetBaseBranch
  \/ GetHeadBranch
  \/ GetToken
  \/ GetWorkingDir
  \/ GetDebug
  \/ MakeLogger
  \/ SetSecret
  \/ LogValidating
  \/ ValidateBase
  \/ ValidateHead
  \/ ValidateDir
  \/ LogBaseBranch
  \/ LogHeadBranch
  \/ LogWorkingDir
  \/ LogChecking
  \/ NpmUpdate
  \/ GitStatus
  \/ CheckStatus
  \/ LogUpdates
  \/ LogSettingUp
  \/ SetupGitName
  \/ SetupGitEmail
  \/ LogCommitting
  \/ GitCheckout
  \/ GitAdd
  \/ GitCommit
  \/ GitPush
  \/ LogFetching
  \/ GetOctokit
  \/ LogCreating
  \/ CreatePull
  \/ LogWentWrong
  \/ SetFailedPull
  \/ LogCaught
  \/ LogNoUpdates
  \/ FinalInfo
  \/ ProcessExit
  \/ UnhandledRejection

Spec ==
  Init /\ [][Next]_vars


(* ============================== properties ============================ *)

HasCharOutside(str, class) ==
  \E i \in 1..Len(str) : str[i] \notin class

NothingInvoked ==
  cmds = <<>> /\ apiCalls = <<>>

Exited ==
  pc = "exited"

RunFailed ==
  Exited /\ core.exitCode = 1

RunSucceeded ==
  Exited /\ core.exitCode = 0

FieldOrder ==
  <<"base-branch", "head-branch", "working-directory">>

IsPrefix(p, q) ==
  Len(p) <= Len(q) /\ p = SubSeq(q, 1, Len(p))

(* ---------------------------------- C1 -------------------------------- *)

\* C1 as stated: whenever the base-branch or head-branch input contains a
\* character outside [A-Za-z0-9_-./], or the working-directory input one
\* outside [A-Za-z0-9_-/], no subprocess and no pull-request call is ever
\* invoked and the run ends failed.
C1_AsStated ==
  (\/ HasCharOutside(inputs.base, BranchChars)
   \/ HasCharOutside(inputs.head, BranchChars)
   \/ HasCharOutside(inputs.dir, DirChars))
  => /\ NothingInvoked
     /\ Exited => core.exitCode = 1

\* C1 amended: whenever the base-branch or head-branch input, with the
\* leading and trailing whitespace that getInput strips removed, contains a
\* character outside [A-Za-z0-9_-./], or the working-directory input so
\* stripped one outside [A-Za-z0-9_-/], no subprocess and no pull-request
\* call is ever invoked and the run ends failed.
C1_Trimmed ==
  (\/ HasCharOutside(Trim(inputs.base), BranchChars)
   \/ HasCharOutside(Trim(inputs.head), BranchChars)
   \/ HasCharOutside(Trim(inputs.dir), DirChars))
  => /\ NothingInvoked
     /\ Exited => core.exitCode = 1

\* A run rejected at the directory check: both branches passed, the
\* directory holds a character outside its class.
C1_Witness ==
  /\ RunFailed
  /\ validated = FieldOrder
  /\ HasCharOutside(Trim(inputs.dir), DirChars)
  /\ ~HasCharOutside(Trim(inputs.dir), BranchChars)
  /\ NothingInvoked

(* ---------------------------------- C2 -------------------------------- *)

AnyAbsent ==
  \/ inputs.base = <<>>
  \/ inputs.head = <<>>
  \/ inputs.token = <<>>
  \/ inputs.dir = <<>>

FirstAbsent ==
  IF inputs.base = <<>> THEN "base-branch"
  ELSE IF inputs.head = <<>> THEN "head-branch"
  ELSE IF inputs.token = <<>> THEN "gh-token"
  ELSE "working-directory"

\* C2: when a required input is absent, no character-class validation of any
\* field is ever performed, no subprocess or API call is invoked, and the run
\* ends failed by a missing-input error naming the first absent input (not by
\* a validation failure).
C2_MissingBeforeValidation ==
  AnyAbsent
  => /\ validated = <<>>
     /\ NothingInvoked
     /\ core.failed = <<>>
     /\ pc \in {"rejected", "exited"}
          => thrown.kind = "MissingInput" /\ thrown.at = FirstAbsent
     /\ Exited => core.exitCode = 1

\* The token is absent while the base branch read before it is malformed:
\* the run ended on the missing input.
C2_Witness ==
  /\ RunFailed
  /\ inputs.token = <<>>
  /\ thrown.kind = "MissingInput"
  /\ HasCharOutside(basebranch, BranchChars)

(* ---------------------------------- C3 -------------------------------- *)

\* Any subprocess other than the update and the status query, the API
\* client and the pull-request call belong to the Publisher.
PublisherRan ==
  \/ \E i \in 1..Len(cmds) :
       cmds[i].argv \notin { <<Lit("npm"), Lit("update")>>,
                             <<Lit("git"), Lit("status"), Lit("-s"), Lit("package*.json")>> }
  \/ octokit.made
  \/ apiCalls # <<>>

NoUpdatesLine ==
  [chan |-> "info",
   text |-> <<Lit("[js-dependency-update]"), Lit(" : "),
              Lit("No updates at this point in time!")>>]

\* C3: once the status query returned an empty stdout no Publisher step is
\* ever invoked and the run ends succeeded with the "no updates" message
\* emitted; and a Publisher step is invoked only after the status query
\* returned a non-empty stdout.
C3_PublisherOnlyOnChanges ==
  /\ (gitStatus.done /\ gitStatus.stdout = <<>>)
       => /\ ~PublisherRan
          /\ Exited => /\ core.exitCode = 0
                       /\ thrown = NoError
                       /\ \E i \in 1..Len(core.out) : core.out[i] = NoUpdatesLine
  /\ PublisherRan => gitStatus.done /\ gitStatus.stdout # <<>>

\* A finished run whose status query printed nothing.
C3_Witness ==
  /\ RunSucceeded
  /\ gitStatus.done
  /\ gitStatus.stdout = <<>>
  /\ Len(cmds) = 2

(* ---------------------------------- C4 -------------------------------- *)

IsPublishStep(c) ==
  /\ c.argv[1] = Lit("git")
  /\ c.argv[2] \in {Lit("checkout"), Lit("add"), Lit("commit"), Lit("push")}

PublishPlan ==
  << [argv |-> <<Lit("git"), Lit("checkout"), Lit("-b"), In("head-branch", headBranch)>>,
      cwd |-> workingDir],
     [argv |-> <<Lit("git"), Lit("add"), Lit("package.json"), Lit("package-lock.json")>>,
      cwd |-> workingDir],
     [argv |-> <<Lit("git"), Lit("commit"), Lit("-m"), Lit("chore update dependencies")>>,
      cwd |-> workingDir],
     [argv |-> <<Lit("git"), Lit("push"), Lit("-u"), Lit("origin"),
                 In("head-branch", headBranch), Lit("--force")>>,
      cwd |-> workingDir] >>

\* C4: the branch-create, stage, commit and push commands are started in
\* exactly that order, one at a time (the one running is the last started),
\* the stage command names exactly package.json and package-lock.json, the
\* pull request is requested once, only after all four, from headBranch into
\* basebranch; and a run with a non-empty status output in which nothing
\* failed has performed all five.
C4_PublishOrder ==
  LET published == SelectSeq(cmds, IsPublishStep)
  IN  /\ IsPrefix(published, PublishPlan)
      /\ published # <<>> => cmds[Len(cmds)] = published[Len(published)]
      /\ apiCalls # <<>>
           => /\ published = PublishPlan
              /\ Len(apiCalls) = 1
              /\ apiCalls[1].head = headBranch
              /\ apiCalls[1].base = basebranch
      /\ (Exited /\ gitStatus.done /\ gitStatus.stdout # <<>> /\ thrown = NoError)
           => published = PublishPlan /\ Len(apiCalls) = 1

\* A run that published and whose pull request was created.
C4_Witness ==
  /\ RunSucceeded
  /\ Len(apiCalls) = 1
  /\ ~caught.set
  /\ Len(cmds) = 8

(* ---------------------------------- C5 -------------------------------- *)

\* C5: once the pull-request call failed, the run ends failed with the
\* caught error's message as its one failure message, and the push stays the
\* last subprocess started: nothing is run or requested after the failure.
C5_PullFailure ==
  caught.set
  => /\ Len(cmds) = 8
     /\ cmds[8].argv = GitPushCmd(headBranch)
     /\ Len(apiCalls) = 1
     /\ thrown = NoError
     /\ Exited => /\ core.exitCode = 1
                  /\ core.failed = << <<Api(caught.message)>> >>

\* A finished run whose pull-request call failed.
C5_Witness ==
  /\ RunFailed
  /\ caught.set
  /\ caught.message = "Bad credentials"

(* ---------------------------------- C6 -------------------------------- *)

C7_Logger ==
  /\ [](pc \notin {"L46", "L47", "L48", "L49", "L50", "L51", "rejected", "exited"}
          => logger = [debug |-> Trim(inputs.debug) \in TrueValues,
                       prefix |-> "[js-dependency-update]"])
  /\ [][calls' # calls
         => LET call == calls'[Len(calls')]
                line == [chan |-> IF call.level = "error" THEN "error" ELSE "info",
                         text |-> (IF call.level = "debug" THEN <<Lit("DEBUG ")>> ELSE <<>>)
                                  \o <<Lit("[js-dependency-update]"), Lit(" : ")>>
                                  \o call.message]
            IN  /\ calls' = Append(calls, call)
                /\ IF call.level # "debug" \/ logger.debug
                   THEN core'.out = Append(core.out, line)
                   ELSE core'.out = core.out
                /\ core'.exitCode = core.exitCode
                /\ core'.failed = core.failed
                /\ core'.secrets = core.secrets
                /\ cmds' = cmds
                /\ apiCalls' = apiCalls
                /\ thrown' = thrown
                /\ pc' \notin {"rejected", "returned", "exited"}]_vars

\* A finished run with the flag off in which debug and error calls were
\* made: only the error lines and the final line are in the output.
C7_Witness ==
  /\ Exited
  /\ ~logger.debug
  /\ \E i \in 1..Len(calls) : calls[i].level = "debug"
  /\ \E i \in 1..Len(calls) : calls[i].level = "error"
  /\ \A i \in 1..Len(core.out) : core.out[i].text[1] # Lit("DEBUG ")

(* ---------------------------------- C8 -------------------------------- *)

\* A text part carries the token when it interpolates the gh-token input or
\* a value equal to a non-empty token.
Carries(part) ==
  \/ part.from = "gh-token"
  \/ ghToken # <<>> /\ part.val = ghToken

TextCarries(text) ==
  \E j \in 1..Len(text) : Carries(text[j])

C9_AbortOnFailure ==
  /\ [](thrown.kind = "ExecError"
          => /\ cmds # <<>>
             /\ apiCalls = <<>>
             /\ ~octokit.made)
  /\ [](\A i, j \in 1..Len(cmds) : cmds[i].argv = cmds[j].argv => i = j)
  /\ [][thrown # NoError => /\ cmds' = cmds
                            /\ apiCalls' = apiCalls
                            /\ thrown' = thrown
                            /\ pc' = "exited"]_vars

\* The commit failed: seven subprocesses were started, no push, no request.
C9_Witness ==
  /\ Exited
  /\ thrown.kind = "ExecError"
  /\ thrown.at = "L111"
  /\ Len(cmds) = 7
  /\ cmds[7].argv = GitCommitCmd

(* ---------------------------------- C10 ------------------------------- *)

Malformed(str, class) ==
  str = <<>> \/ HasCharOutside(str, class)

FirstMalformed ==
  IF Malformed(basebranch, BranchChars) THEN 1
  ELSE IF Malformed(headBranch, BranchChars) THEN 2
  ELSE IF Malformed(workingDir, DirChars) THEN 3
  ELSE 0

FieldMessage ==
  << <<Lit("Invalid base branch name. Brnch names should include only characters, numbers, hyphens, underscores, dots and forward slashes")>>,
     <<Lit("Invalid head branch name. Brnch names should include only characters, numbers, hyphens, underscores, dots and forward slashes")>>,
     <<Lit("Invalid directory name. Directory names should include only characters, numbers, hyphens, underscores and forward slashes")>> >>

\* C10: the fields are checked in the order base-branch, head-branch,
\* working-directory; when the k-th is the first malformed one the run
\* returns at once with exactly one failure message, the one naming field k,
\* the fields after k are never checked, and nothing is invoked.
C10_FirstInvalidReported ==
  /\ IsPrefix(validated, FieldOrder)
  /\ (validated # <<>> /\ FirstMalformed # 0)
       => /\ Len(validated) <= FirstMalformed
          /\ NothingInvoked
          /\ Len(validated) = FirstMalformed
               => /\ pc \in {"returned", "exited"}
                  /\ core.failed = <<FieldMessage[FirstMalformed]>>
                  /\ Len(core.out) = IF logger.debug THEN 2 ELSE 1
          /\ Exited => /\ Len(validated) = FirstMalformed
                       /\ core.exitCode = 1
  /\ (validated # <<>> /\ FirstMalformed = 0 /\ ~caught.set) => core.failed = <<>>

\* Head branch and directory are both malformed: only the head branch is
\* reported and the directory was never checked.
C10_Witness ==
  /\ RunFailed
  /\ core.failed = <<InvalidHeadMsg>>
  /\ validated = <<"base-branch", "head-branch">>
  /\ Malformed(workingDir, DirChars)

====
